---- MODULE Spec2Model ----
(***************************************************************************)
(* Gmail import pipeline of FinWell: request de-duplication                *)
(* (preventDuplicateImports), message location (listExpenseEmails),        *)
(* content fetch (parseEmail), field extraction (extractExpenseData),      *)
(* duplicate judgement (isDuplicateExpense) and the permanent ledger of    *)
(* processed emails (isEmailAlreadyProcessed / markEmailAsProcessed).      *)
(*                                                                         *)
(* A text is a sequence of one-character strings.  The rupee sign is       *)
(* written as the one-symbol token Rupee.                                  *)
(***************************************************************************)
EXTENDS Integers, Sequences, FiniteSets, TLC

\* ------------------------------------------------------------------------
\* Characters and character classes of the regular expressions
\* ------------------------------------------------------------------------
Rupee == "<rupee>"

Digits == <<"0", "1", "2", "3", "4", "5", "6", "7", "8", "9">>

UpperCase == <<"A", "B", "C", "D", "E", "F", "G", "H", "I", "J", "K", "L", "M",
               "N", "O", "P", "Q", "R", "S", "T", "U", "V", "W", "X", "Y", "Z">>

LowerCase == <<"a", "b", "c", "d", "e", "f", "g", "h", "i", "j", "k", "l", "m",
               "n", "o", "p", "q", "r", "s", "t", "u", "v", "w", "x", "y", "z">>

IsDigit(c) == \E i \in 1..10 : Digits[i] = c

DigitVal(c) == (CHOOSE i \in 1..10 : Digits[i] = c) - 1

\* \s of the patterns (the whitespace characters the modelled texts use)
IsWs(c) == c \in {" ", "\t", "\n", "\r"}

\* [\n\r]; "." of the patterns is every character that is not one of these
IsNewline(c) == c \in {"\n", "\r"}

\* [:\s]
IsColonWs(c) == c = ":" \/ IsWs(c)

\* [\d,]
IsDigitComma(c) == IsDigit(c) \/ c = ","

\* case folding of the /i flag
ToLower(c) ==
  IF \E i \in 1..26 : UpperCase[i] = c
  THEN LowerCase[CHOOSE i \in 1..26 : UpperCase[i] = c]
  ELSE c

\* least and greatest element of a non-empty set of integers
Min(S) == CHOOSE i \in S : \A j \in S : i <= j

Max(S) == CHOOSE i \in S : \A j \in S : j <= i

\* membership of c in the character class named cls ("": no character)
InClass(cls, c) ==
  CASE cls = "\\s" -> IsWs(c)
    [] cls = "[:\\s]" -> IsColonWs(c)
    [] cls = "\\d" -> IsDigit(c)
    [] cls = "[\\d,]" -> IsDigitComma(c)
    [] OTHER -> FALSE

\* greedy X* from position p: the first position q >= p with t[q] not in
\* the class, Len(t) + 1 if there is none
SkipWhile(t, p, cls) ==
  Min({q \in p..(Len(t) + 1) : q > Len(t) \/ ~InClass(cls, t[q])})

\* c? from position p, for a single character c
SkipOpt(t, p, c) == IF p <= Len(t) /\ t[p] = c THEN p + 1 ELSE p

\* pre* opt? post* from position p
Skip3(t, p, pre, opt, post) ==
  SkipWhile(t, SkipOpt(t, SkipWhile(t, p, pre), opt), post)

\* the literal lit (lower case) occurs in t at position i, ignoring case
HasLit(t, i, lit) ==
  /\ i + Len(lit) - 1 <= Len(t)
  /\ \A k \in 1..Len(lit) : ToLower(t[i + k - 1]) = lit[k]

\* String.prototype.trim
Trim(t) ==
  IF \A k \in 1..Len(t) : IsWs(t[k]) THEN <<>>
  ELSE SubSeq(t, Min({i \in 1..Len(t) : ~IsWs(t[i])}),
                 Max({j \in 1..Len(t) : ~IsWs(t[j])}))

\* String.prototype.substring(0, n)
Substring0(t, n) == IF Len(t) > n THEN SubSeq(t, 1, n) ELSE t

\* ------------------------------------------------------------------------
\* Numbers: parseFloat yields NaN or the non-negative decimal m / 10^e
\* (e minimal, so that equal values have equal representations)
\* ------------------------------------------------------------------------
NaN == [nan |-> TRUE, m |-> 0, e |-> 0]

Num(m, e) == [nan |-> FALSE, m |-> m, e |-> e]

Zero == Num(0, 0)

RECURSIVE DigitsToNat(_)
DigitsToNat(ds) ==
  IF Len(ds) = 0 THEN 0
  ELSE 10 * DigitsToNat(SubSeq(ds, 1, Len(ds) - 1)) + DigitVal(ds[Len(ds)])

\* the value of int.frac, keep being the position of the last digit of
\* frac that is not 0 (0 if there is none)
Decimal(int, frac, keep) ==
  Num(DigitsToNat(int \o SubSeq(frac, 1, keep)), keep)

\* the number with the digits int before and frac after the point
MakeNum(int, frac) ==
  IF Len(int) = 0 /\ Len(frac) = 0 THEN NaN
  ELSE Decimal(int, frac, Max({0} \cup {j \in 1..Len(frac) : frac[j] # "0"}))

\* the number read from position p0 on, p1 being the end of its integer
\* digits
ParseNumber(s, p0, p1) ==
  MakeNum(SubSeq(s, p0, p1 - 1),
          SubSeq(s, p1 + 1, SkipWhile(s, SkipOpt(s, p1, "."), "\\d") - 1))

\* the number read from position p0 on
ParseFrom(s, p0) == ParseNumber(s, p0, SkipWhile(s, p0, "\\d"))

\* parseFloat(s) for s without sign and exponent: the longest prefix
\* digits [. digits] or . digits after leading white space; NaN when that
\* prefix has no digit
ParseFloat(s) == ParseFrom(s, SkipWhile(s, 1, "\\s"))

\* variant of IsPositive: amount >= 0
IsPositive_AllowsZero(a) == ~a.nan

\* amount > 0
IsPositive(a) == ~a.nan /\ a.m > 0

\* amount || 0
OrZero(a) == IF a.nan \/ a.m = 0 THEN Zero ELSE a

\* ------------------------------------------------------------------------
\* extractExpenseData: the amount
\* ------------------------------------------------------------------------
\* An amount pattern /lit pre* opt? post* ([\d,]+\.?\d*)/, global: the /g
\* flag.
AmountPat(lit, pre, opt, post, global) ==
  [lit |-> lit, pre |-> pre, opt |-> opt, post |-> post, global |-> global]

\* /Amount[:\s]*<rupee>?\s*([\d,]+\.?\d*)/i and the patterns of its form
LabelPat(lit) == AmountPat(lit, "[:\\s]", Rupee, "\\s", FALSE)

amountPatterns ==
  << LabelPat(<<"a", "m", "o", "u", "n", "t">>),
     LabelPat(<<"t", "o", "t", "a", "l">>),
     LabelPat(<<"p", "r", "i", "c", "e">>),
     LabelPat(<<"c", "o", "s", "t">>),
     AmountPat(<<Rupee>>, "", "", "\\s", TRUE),
     AmountPat(<<"i", "n", "r">>, "[:\\s]", "", "", FALSE),
     AmountPat(<<"r", "s">>, "", ".", "\\s", FALSE),
     AmountPat(<<"$">>, "", "", "\\s", TRUE),
     LabelPat(<<"p", "a", "i", "d">>),
     LabelPat(<<"c", "h", "a", "r", "g", "e", "d">>),
     LabelPat(<<"b", "i", "l", "l">>) >>

\* position of the number when the pattern's literal ends right before p
NumStart(t, p, pat) == Skip3(t, p, pat.pre, pat.opt, pat.post)

\* last position of ([\d,]+\.?\d*) starting at q
NumEnd(t, q) == Skip3(t, q, "[\\d,]", ".", "\\d") - 1

\* [\d,]+ matches at position q
StartsNumber(t, q) == q <= Len(t) /\ IsDigitComma(t[q])

\* the pattern matches with its first character at position i
AmountMatchesAt(t, i, pat) ==
  HasLit(t, i, pat.lit) /\ StartsNumber(t, NumStart(t, i + Len(pat.lit), pat))

\* last position of the match that starts at position i
MatchEnd(t, i, pat) == NumEnd(t, NumStart(t, i + Len(pat.lit), pat))

\* the group ([\d,]+\.?\d*) that starts at position q
Group1(t, q) == SubSeq(t, q, NumEnd(t, q))

\* body.match(pattern): null, or an array whose element [1] may be undefined
NoMatch == [found |-> FALSE, has1 |-> FALSE, m1 |-> <<>>]

\* The array of a /g pattern, later being the positions after the first
\* match where the pattern matches: the array holds the matched substrings
\* without groups, so [1] is the whole text of the second match and
\* undefined when there is one match only.
GlobalArray(t, pat, later) ==
  IF later = {} THEN [found |-> TRUE, has1 |-> FALSE, m1 |-> <<>>]
  ELSE [found |-> TRUE, has1 |-> TRUE,
        m1 |-> SubSeq(t, Min(later), MatchEnd(t, Min(later), pat))]

\* The array of body.match(pattern), hits being the positions where the
\* pattern matches: without /g the leftmost match with its group as [1].
MatchArray(t, pat, hits) ==
  IF hits = {} THEN NoMatch
  ELSE IF pat.global
       THEN GlobalArray(t, pat, {i \in hits : i > MatchEnd(t, Min(hits), pat)})
       ELSE [found |-> TRUE, has1 |-> TRUE,
             m1 |-> Group1(t, NumStart(t, Min(hits) + Len(pat.lit), pat))]

\* body.match(pattern)
AmountMatch(t, pat) ==
  MatchArray(t, pat, {i \in 1..Len(t) : AmountMatchesAt(t, i, pat)})

\* match[1].replace(/,/g, "")
RemoveCommas(s) == SelectSeq(s, LAMBDA c : c # ",")

\* The loop over amountPatterns from pattern i on, amount being the value
\* assigned so far; threw: match[1] was undefined (TypeError).
RECURSIVE AmountLoop(_, _, _)
\* amount = parseFloat(rawAmount); if (amount > 0) break
AmountBreak(body, i, a) ==
  IF IsPositive(a) THEN [threw |-> FALSE, amount |-> a]
  ELSE AmountLoop(body, i + 1, a)

\* if (match) { ... } for pattern i
AmountStep(body, i, amount, match) ==
  IF ~match.found THEN AmountLoop(body, i + 1, amount)
  ELSE IF ~match.has1 THEN [threw |-> TRUE, amount |-> amount]
  ELSE AmountBreak(body, i, ParseFloat(RemoveCommas(match.m1)))

AmountLoop(body, i, amount) ==
  IF i > Len(amountPatterns) THEN [threw |-> FALSE, amount |-> amount]
  ELSE AmountStep(body, i, amount, AmountMatch(body, amountPatterns[i]))

\* ------------------------------------------------------------------------
\* extractExpenseData: the title
\* ------------------------------------------------------------------------
\* the literals of /Label[:\s]*(.+?)[\n\r]/i, in table order
titlePatterns ==
  << <<"i", "t", "e", "m">>,
     <<"p", "r", "o", "d", "u", "c", "t">>,
     <<"s", "e", "r", "v", "i", "c", "e">>,
     <<"p", "u", "r", "c", "h", "a", "s", "e">>,
     <<"t", "r", "a", "n", "s", "a", "c", "t", "i", "o", "n">>,
     <<"d", "e", "s", "c", "r", "i", "p", "t", "i", "o", "n">>,
     <<"f", "o", "r">>,
     <<"o", "r", "d", "e", "r">> >>

TitleMaxLen == 100

TitleMinLen == 3

\* The positions where (.+?) can start when the literal ends right before
\* p: [:\s]* gives back characters until a character other than a line
\* break follows that has a line break somewhere after it.
LineCaptureStarts(t, p) ==
  { s \in p..SkipWhile(t, p, "[:\\s]") :
      /\ s <= Len(t)
      /\ ~IsNewline(t[s])
      /\ \E q \in (s + 1)..Len(t) : IsNewline(t[q]) }

LineMatchesAt(t, i, lit) ==
  HasLit(t, i, lit) /\ LineCaptureStarts(t, i + Len(lit)) # {}

\* (.+?)[\n\r] from position s: the text up to the first line break
LineCapture(t, s) ==
  SubSeq(t, s, Min({q \in (s + 1)..Len(t) : IsNewline(t[q])}) - 1)

\* The array of body.match(pattern), hits being the positions where the
\* pattern matches: the leftmost match, [:\s]* taking all it can.
LineArray(t, lit, hits) ==
  IF hits = {} THEN NoMatch
  ELSE [found |-> TRUE, has1 |-> TRUE,
        m1 |-> LineCapture(t, Max(LineCaptureStarts(t, Min(hits) + Len(lit))))]

\* body.match(pattern) for /Label[:\s]*(.+?)[\n\r]/i
LineMatch(t, lit) ==
  LineArray(t, lit, {i \in 1..Len(t) : LineMatchesAt(t, i, lit)})

\* The loop over titlePatterns from pattern i on, title being the value
\* assigned so far.
RECURSIVE TitleLoop(_, _, _)
\* if (title && title.length > 3) break
TitleBreak(body, i, title) ==
  IF Len(title) > TitleMinLen THEN title ELSE TitleLoop(body, i + 1, title)

\* if (match) { ... } for pattern i
TitleStep(body, i, title, match) ==
  IF ~match.found THEN TitleLoop(body, i + 1, title)
  ELSE TitleBreak(body, i, Substring0(Trim(match.m1), TitleMaxLen))

TitleLoop(body, i, title) ==
  IF i > Len(titlePatterns) THEN title
  ELSE TitleStep(body, i, title, LineMatch(body, titlePatterns[i]))

\* the prefixes of /^(Re:|Fwd:|FW:|RE:)\s*/i in lower case
ReplyPrefixes ==
  << <<"r", "e", ":">>, <<"f", "w", "d", ":">>, <<"f", "w", ":">>,
     <<"r", "e", ":">> >>

\* title.replace(/^(Re:|Fwd:|FW:|RE:)\s*/i, "")
StripReplyPrefix(t) ==
  IF \A n \in 1..Len(ReplyPrefixes) : ~HasLit(t, 1, ReplyPrefixes[n]) THEN t
  ELSE SubSeq(t,
         SkipWhile(t,
           Len(ReplyPrefixes[Min({n \in 1..Len(ReplyPrefixes) :
                                    HasLit(t, 1, ReplyPrefixes[n])})]) + 1,
           "\\s"),
         Len(t))

GmailExpense ==
  <<"G", "m", "a", "i", "l", " ", "E", "x", "p", "e", "n", "s", "e">>

\* if (!title && headers.subject) title = the subject without its prefix
SubjectFallback(title, subject) ==
  IF title = <<>> /\ subject # <<>> THEN StripReplyPrefix(Trim(subject))
  ELSE title

\* title || "Gmail Expense"
TitleOrDefault(title) == IF title = <<>> THEN GmailExpense ELSE title

\* the title of the result: pattern table, then subject, then placeholder
ExtractTitle(body, subject) ==
  TitleOrDefault(SubjectFallback(TitleLoop(body, 1, <<>>), subject))

\* ------------------------------------------------------------------------
\* extractExpenseData: the result
\* ------------------------------------------------------------------------
\* the literals of the datePatterns /Label[:\s]*([^\r\n]+)/i, in table order
datePatterns ==
  << <<"d", "a", "t", "e", " ", "o", "f", " ", "p", "u", "r", "c", "h", "a", "s", "e">>,
     <<"t", "r", "a", "n", "s", "a", "c", "t", "i", "o", "n", " ", "d", "a", "t", "e">>,
     <<"p", "u", "r", "c", "h", "a", "s", "e", " ", "d", "a", "t", "e">>,
     <<"d", "a", "t", "e">>,
     <<"o", "n">>,
     <<"p", "u", "r", "c", "h", "a", "s", "e", "d", " ", "o", "n">> >>

\* some date pattern matches: its literal is followed, after [:\s]* giving
\* back what it must, by at least one character that is not a line break
DatePatternMatches(body) ==
  \E n \in 1..Len(datePatterns) : \E i \in 1..Len(body) :
    /\ HasLit(body, i, datePatterns[n])
    /\ \E s \in (i + Len(datePatterns[n]))..
                   SkipWhile(body, i + Len(datePatterns[n]), "[:\\s]") :
         s <= Len(body) /\ ~IsNewline(body[s])

\* the literals of the vendorPatterns /Label[:\s]*(.+?)[\n\r]/i, in table
\* order
vendorPatterns ==
  << <<"v", "e", "n", "d", "o", "r">>,
     <<"m", "e", "r", "c", "h", "a", "n", "t">>,
     <<"s", "t", "o", "r", "e">>,
     <<"f", "r", "o", "m">>,
     <<"s", "h", "o", "p">>,
     <<"c", "o", "m", "p", "a", "n", "y">> >>

VendorMaxLen == 50

\* The loop over vendorPatterns from pattern i on: the first pattern that
\* matches ends the loop, "" when none matches.
RECURSIVE VendorLoop(_, _)
\* variant of VendorStep: the vendor is not cut
VendorStep_NoCut(body, i, match) ==
  IF ~match.found THEN VendorLoop(body, i + 1) ELSE Trim(match.m1)

\* if (match) { ... break } for pattern i
VendorStep(body, i, match) ==
  IF ~match.found THEN VendorLoop(body, i + 1)
  ELSE Substring0(Trim(match.m1), VendorMaxLen)

VendorLoop(body, i) ==
  IF i > Len(vendorPatterns) THEN <<>>
  ELSE VendorStep(body, i, LineMatch(body, vendorPatterns[i]))

\* the positions of character c in t
Positions(t, c) == {i \in 1..Len(t) : t[i] = c}

\* t.split(c)[0]: the text before the first c, t when it has none
BeforeFirst(t, c) ==
  IF Positions(t, c) = {} THEN t ELSE SubSeq(t, 1, Min(Positions(t, c)) - 1)

\* the text after the first c of a text that has one
AfterFirst(t, c) == SubSeq(t, Min(Positions(t, c)) + 1, Len(t))

\* The group of from.match(/<(.+)>/), opens being the positions of a "<"
\* that has a ">" at least two positions later (header values have no line
\* break), or from when there is no match.
AngleGroup(from, opens) ==
  IF opens = {} THEN from
  ELSE SubSeq(from, Min(opens) + 1, Max(Positions(from, ">")) - 1)

\* emailMatch ? emailMatch[1] : headers.from
SenderAddress(from) ==
  AngleGroup(from, {i \in Positions(from, "<") :
                      \E j \in Positions(from, ">") : j >= i + 2})

\* if (vendor.includes("@")) vendor = vendor.split("@")[1].split(".")[0]
DomainToken(vendor) ==
  IF Positions(vendor, "@") = {} THEN vendor
  ELSE BeforeFirst(BeforeFirst(AfterFirst(vendor, "@"), "@"), ".")

\* if (!vendor && headers.from) vendor = the token of the sender's domain
SenderFallback(vendor, from) ==
  IF vendor = <<>> /\ from # <<>> THEN DomainToken(SenderAddress(from))
  ELSE vendor

\* Instants are milliseconds counted from 2026-01-10T00:00:00Z, so that
\* the dates of the model fit the integers.
\* 24 * 60 * 60 * 1000
DayMs == 86400000

\* new Date(s), for the two kinds of text the model uses: a calendar date
\* YYYY-MM-DD away from the turn of a year (UTC midnight of that day) and a
\* text without digits (Invalid Date)
NewDate(s) ==
  IF ~( /\ Len(s) = 10
         /\ s[5] = "-" /\ s[8] = "-"
         /\ \A k \in {1, 2, 3, 4, 6, 7, 9, 10} : IsDigit(s[k]) )
  THEN [valid |-> FALSE, year |-> 0, month |-> 0, day |-> 0]
  ELSE [valid |-> TRUE,
        year  |-> DigitsToNat(SubSeq(s, 1, 4)),
        month |-> DigitsToNat(SubSeq(s, 6, 7)),
        day   |-> DigitsToNat(SubSeq(s, 9, 10))]

\* the number of the day year-month-day in the count of days of the civil
\* calendar, y being the year less one for January and February and mp the
\* month counted from March
CivilDay(year, month, day) ==
  LET y  == IF month <= 2 THEN year - 1 ELSE year
      mp == IF month <= 2 THEN month + 9 ELSE month - 3
  IN  365 * y + y \div 4 - y \div 100 + y \div 400 + (153 * mp + 2) \div 5 + day

\* tempDate.getTime(), counted from 2026-01-10T00:00:00Z
TimeOf(date) ==
  (CivilDay(date.year, date.month, date.day)
     - CivilDay(2026, 1, 10)) * DayMs

\* [:\s]*([^\r\n]+) from position p: the positions where the group can
\* start, [:\s]* giving back characters until one that is no line break
DateCaptureStarts(t, p) ==
  {s \in p..SkipWhile(t, p, "[:\\s]") : s <= Len(t) /\ ~IsNewline(t[s])}

\* ([^\r\n]+) from position s: the rest of the line
RestOfLine(t, s) ==
  SubSeq(t, s, Min({q \in s..(Len(t) + 1) : q > Len(t) \/ IsNewline(t[q])}) - 1)

\* The array of body.match(pattern), hits being the positions where the
\* pattern matches.
DateArray(t, lit, hits) ==
  IF hits = {} THEN NoMatch
  ELSE [found |-> TRUE, has1 |-> TRUE,
        m1 |-> RestOfLine(t, Max(DateCaptureStarts(t, Min(hits) + Len(lit))))]

\* body.match(pattern) for /Label[:\s]*([^\r\n]+)/i
DateMatch(t, lit) ==
  DateArray(t, lit, {i \in 1..Len(t) :
                      /\ HasLit(t, i, lit)
                      /\ DateCaptureStarts(t, i + Len(lit)) # {}})

MinYear == 2020

\* The loop over datePatterns from pattern i on, parsedDate being the value
\* so far.
RECURSIVE DateLoop(_, _, _)
\* variant of DateBreak: parsedDate is not assigned before the break
DateBreak_KeepsNow(body, i, parsedDate, tempDate) ==
  IF tempDate.valid /\ tempDate.year > MinYear THEN parsedDate
  ELSE DateLoop(body, i + 1, parsedDate)

\* if (!isNaN(tempDate.getTime()) && tempDate.getFullYear() > 2020) break
DateBreak(body, i, parsedDate, tempDate) ==
  IF tempDate.valid /\ tempDate.year > MinYear THEN TimeOf(tempDate)
  ELSE DateLoop(body, i + 1, parsedDate)

\* if (match) { ... } for pattern i
DateStep(body, i, parsedDate, match) ==
  IF ~match.found THEN DateLoop(body, i + 1, parsedDate)
  ELSE DateBreak(body, i, parsedDate, NewDate(Trim(match.m1)))

DateLoop(body, i, parsedDate) ==
  IF i > Len(datePatterns) THEN parsedDate
  ELSE DateStep(body, i, parsedDate, DateMatch(body, datePatterns[i]))

\* the result object, loop being the outcome of the amount loop
ExtractionResult(loop, title, vendor, date) ==
  [threw  |-> loop.threw,
   title  |-> title,
   amount |-> OrZero(loop.amount),
   vendor |-> vendor,
   date   |-> date]

\* extractExpenseData(emailData) called at instant at: parsedDate starts as
\* new Date(), the instant of the call.  threw: the function ends by the
\* TypeError of the amount loop.
extractExpenseData(emailData, at) ==
  ExtractionResult(AmountLoop(emailData.body, 1, Zero),
                   ExtractTitle(emailData.body, emailData.headers.subject),
                   SenderFallback(VendorLoop(emailData.body, 1),
                                  emailData.headers.from),
                   DateLoop(emailData.body, 1, at))

\* ------------------------------------------------------------------------
\* The mailbox (Gmail API) and parseEmail
\* ------------------------------------------------------------------------
Users == {"u1", "u2"}

MessageIds == {"m1", "m2", "m3", "m4"}

\* users.messages.get: the payload of a message with its Subject and From
\* headers (<<>>: no such header).  data is the text that body.data
\* encodes, <<>> when there is no data; parts are the child parts.  The
\* messages of the mailbox are simple text/plain emails.
Message(m) ==
  CASE m = "m1" -> [headers |-> [subject |-> <<"R", "e", "c", "e", "i", "p", "t">>,
                                 from |-> <<"S", "h", "o", "p", " ", "<", "a", "@", "b", ".", "c", ">">>],
                    mimeType |-> "text/plain",
                    data |-> <<"T", "o", "t", "a", "l", ":", " ", Rupee, "1", ",", "2", "5", "0", ".", "5", "0", "\n">>,
                    parts |-> <<>>]
    [] m = "m2" -> [headers |-> [subject |-> <<"H", "e", "l", "l", "o">>,
                                 from |-> <<"S", "h", "o", "p", " ", "<", "a", "@", "b", ".", "c", ">">>],
                    mimeType |-> "text/plain",
                    data |-> <<"H", "i", "\n">>,
                    parts |-> <<>>]
    [] m = "m3" -> [headers |-> [subject |-> <<"R", "e", ":", " ", "P", "a", "i", "d">>,
                                 from |-> <<"S", "h", "o", "p", " ", "<", "a", "@", "b", ".", "c", ">">>],
                    mimeType |-> "text/plain",
                    data |-> <<"P", "a", "i", "d", " ", Rupee, "5", " ", "c", "a", "s", "h">>,
                    parts |-> <<>>]
    [] m = "m4" -> [headers |-> [subject |-> <<"R", "e", "c", "e", "i", "p", "t">>,
                                 from |-> <<"S", "h", "o", "p", " ", "<", "a", "@", "b", ".", "c", ">">>],
                    mimeType |-> "text/plain",
                    data |-> <<"T", "o", "t", "a", "l", ":", " ", Rupee, "1", ",", "2", "5", "0", ".", "5", "0", "\n">>,
                    parts |-> <<>>]

NoHeaders == [subject |-> <<>>, from |-> <<>>]

\* htmlText.replace(/<[^>]*>/g, " ") from position p on: every "<" that has
\* a ">" after it is replaced, with all up to the first such ">", by a space
RECURSIVE StripTags(_, _)
StripTags(s, p) ==
  IF p > Len(s) THEN <<>>
  ELSE IF s[p] = "<" /\ \E q \in (p + 1)..Len(s) : s[q] = ">"
       THEN <<" ">> \o StripTags(s, Min({q \in (p + 1)..Len(s) : s[q] = ">"}) + 1)
       ELSE <<s[p]>> \o StripTags(s, p + 1)

\* t.replace(/\s+/g, " ") from position p on
RECURSIVE CollapseWs(_, _)
CollapseWs(t, p) ==
  IF p > Len(t) THEN <<>>
  ELSE IF IsWs(t[p]) THEN <<" ">> \o CollapseWs(t, SkipWhile(t, p, "\\s"))
       ELSE <<t[p]>> \o CollapseWs(t, p + 1)

\* the basic HTML to text conversion: tags to spaces, runs of white space
\* to one space, trim
HtmlToText(s) == Trim(CollapseWs(StripTags(s, 1), 1))

\* extractTextFromParts(parts): the loop over the parts from part i on,
\* text being the text collected so far in this call
RECURSIVE PartsLoop(_, _, _)
\* what the loop body appends to text for one part
PartText(part, text) ==
  IF part.mimeType = "text/plain" /\ part.data # <<>> THEN part.data
  ELSE IF part.mimeType = "text/html" /\ part.data # <<>> /\ text = <<>>
       THEN HtmlToText(part.data)
       ELSE PartsLoop(part.parts, 1, <<>>)

PartsLoop(parts, i, text) ==
  IF i > Len(parts) THEN text
  ELSE PartsLoop(parts, i + 1, text \o PartText(parts[i], text))

\* The try block of parseEmail after users.messages.get has returned
\* payload: the headers and the body of a multipart or a simple email.
ParsePayload(payload, messageId) ==
  [headers   |-> payload.headers,
   body      |-> IF payload.parts # <<>> THEN PartsLoop(payload.parts, 1, <<>>)
                 ELSE IF payload.mimeType = "text/html"
                      THEN HtmlToText(payload.data)
                      ELSE payload.data,
   messageId |-> messageId]

\* variant of parseEmail: the catch block returns no messageId
parseEmail_CatchDropsId(messageId, ok) ==
  IF ok THEN ParsePayload(Message(messageId), messageId)
  ELSE [headers |-> NoHeaders, body |-> <<>>, messageId |-> ""]

\* parseEmail(messageId); ok = FALSE: users.messages.get rejects and the
\* catch block returns empty headers and an empty body
parseEmail(messageId, ok) ==
  IF ok THEN ParsePayload(Message(messageId), messageId)
  ELSE [headers |-> NoHeaders, body |-> <<>>, messageId |-> messageId]

\* ------------------------------------------------------------------------
\* listExpenseEmails
\* ------------------------------------------------------------------------
NumQueries == 4

\* uniqueMessages: the first occurrence of every id
RECURSIVE UniqueMessages(_)
UniqueMessages(ms) ==
  IF ms = <<>> THEN <<>>
  ELSE LET front == UniqueMessages(SubSeq(ms, 1, Len(ms) - 1))
           last  == ms[Len(ms)]
       IN IF \E i \in 1..Len(front) : front[i] = last THEN front
          ELSE Append(front, last)

\* index of the first query with a non-empty result, NumQueries + 1 if none
FirstHit(results) ==
  CHOOSE k \in 1..(NumQueries + 1) :
    /\ \A j \in 1..(k - 1) : results[j] = <<>>
    /\ k = NumQueries + 1 \/ results[k] # <<>>

\* variant of listExpenseEmails: the loop has no break and collects the
\* results of every query
listExpenseEmails_NoBreak(results, failAt) ==
  IF failAt \in 1..(NumQueries + 1) THEN <<>>
  ELSE UniqueMessages(results[1] \o results[2] \o results[3] \o results[4])

\* results[k]: what users.messages.list returns for searchQueries[k].
\* failAt: which API call rejects (0: none, 1: getProfile, k + 1: the list
\* call of query k); a rejected call that is issued makes the function
\* return [] from its catch block.
listExpenseEmails(results, failAt) ==
  LET hit    == FirstHit(results)
      issued == 1 + (IF hit <= NumQueries THEN hit ELSE NumQueries)
  IN IF failAt \in 1..issued THEN <<>>
     ELSE IF hit <= NumQueries THEN UniqueMessages(results[hit]) ELSE <<>>

\* an API call of listExpenseEmails(results, failAt) rejects: the rejecting
\* call is one the function issues
Rejects(results, failAt) ==
  failAt \in 1..(1 + Min({FirstHit(results), NumQueries}))

\* the number of users.messages.list calls the function issues: up to the
\* rejected call, else up to the break
QueriesIssued(results, failAt) ==
  IF Rejects(results, failAt) THEN failAt - 1
  ELSE Min({FirstHit(results), NumQueries})

\* ------------------------------------------------------------------------
\* State
\* ------------------------------------------------------------------------
importCooldown == 30000

SimilarTitleLen == 20

\* The requests of the model in the order of their arrival: two requests
\* give a rerun of one user, parallel runs of two users and two runs of
\* one user that overlap.
RequestOrder == <<"r1", "r2">>

Requests == {RequestOrder[i] : i \in 1..Len(RequestOrder)}

\* the clock advances in steps of TickMs up to MaxNow
TickMs == 15000

MaxNow == 30000

\* users.messages.list: what the four search queries return for the
\* mailbox of a user (the mailbox content does not change)
Inbox(u) ==
  IF u = "u1" THEN << <<>>, <<"m3", "m1", "m4">>, <<"m2">>, <<>> >>
  ELSE << <<"m2", "m1", "m2">>, <<"m3">>, <<>>, <<>> >>

\* extractExpenseData(parseEmail(m, ok)) at instant 0, for every message
\* and both outcomes of the fetch.  No date pattern matches a text of the
\* mailbox, so the date of a result is the instant of the call.
Extraction ==
  [m \in MessageIds |->
     [ok \in BOOLEAN |-> extractExpenseData(parseEmail(m, ok), 0)]]

VARIABLES
  now,            \* Date.now()
  activeImports,  \* the Map activeImports: lock key -> instant of the start
  ProcessedEmail, \* the ProcessedEmail collection
  Expense,        \* the Expense collection
  req,            \* the requests of GET /api/gmail/fetch-expenses
  call            \* the last call of a function of gmailParser.js on its own

vars == <<now, activeImports, ProcessedEmail, Expense, req, call>>

\* expenseId = null; the _id of a document is the pair of the request
\* and the position in its message list that created it
NoExpense == <<>>

\* activeImports.has(key) is false
Absent == -1

\* variant of LockKey: req.user.id is never defined
LockKey_Shared(user) == "anonymous"

\* req.user?.id || "anonymous"
LockKey(user) == IF user \in Users THEN user ELSE "anonymous"

LockKeys == Users \cup {"anonymous"}

NoData ==
  [threw |-> FALSE, title |-> <<>>, amount |-> Zero, vendor |-> <<>>,
   date |-> 0]

IdleRequest ==
  [pc |-> "idle", user |-> "", after |-> {}, early |-> FALSE,
   finishedAt |-> Absent,
   messages |-> <<>>, idx |-> 1, fetched |-> FALSE,
   data |-> NoData, status |-> "", expenseId |-> NoExpense,
   imported |-> 0, skipped |-> 0, errors |-> 0, log |-> <<>>]

Init ==
  /\ now = 0
  /\ activeImports = [k \in LockKeys |-> Absent]
  /\ ProcessedEmail = {}
  /\ Expense = {}
  /\ req = [r \in Requests |-> IdleRequest]
  /\ call = [op |-> "none"]

\* ------------------------------------------------------------------------
\* The ledger and the duplicate judge
\* ------------------------------------------------------------------------
\* variant of isEmailAlreadyProcessed: the query also asks for
\* status: "processed"
isEmailAlreadyProcessed_OnlyProcessed(userId, gmailMessageId) ==
  \E p \in ProcessedEmail :
    /\ p.userId = userId
    /\ p.gmailMessageId = gmailMessageId
    /\ p.status = "processed"

\* ProcessedEmail.findOne({userId, gmailMessageId}) finds a document
isEmailAlreadyProcessed(userId, gmailMessageId) ==
  \E p \in ProcessedEmail :
    p.userId = userId /\ p.gmailMessageId = gmailMessageId

\* variant of NewProcessedEmail: the expenseId argument is not stored
NewProcessedEmail_NoLink(id, userId, emailData, expenseId, status) ==
  [id |-> id, userId |-> userId, gmailMessageId |-> emailData.messageId,
   emailSubject |-> emailData.headers.subject,
   senderEmail |-> emailData.headers.from,
   expenseId |-> NoExpense, status |-> status]

\* the document markEmailAsProcessed builds, with _id id (processedAt and
\* the timestamps, which no operation reads, are left out)
NewProcessedEmail(id, userId, emailData, expenseId, status) ==
  [id |-> id, userId |-> userId, gmailMessageId |-> emailData.messageId,
   emailSubject |-> emailData.headers.subject,
   senderEmail |-> emailData.headers.from,
   expenseId |-> expenseId, status |-> status]

\* variant of ViolatesUniqueIndex: the collection has no unique index
ViolatesUniqueIndex_NoIndex(coll, doc) == FALSE

\* the unique index {userId, gmailMessageId} rejects the document
ViolatesUniqueIndex(coll, doc) ==
  \E p \in coll :
    p.userId = doc.userId /\ p.gmailMessageId = doc.gmailMessageId

\* variant of Save: documents with status "error" are not stored
Save_DropsErrors(coll, doc) ==
  IF doc.status = "error" \/ ViolatesUniqueIndex(coll, doc) THEN coll
  ELSE coll \cup {doc}

\* variant of Save: a document for the same user and message is replaced
Save_Upsert(coll, doc) ==
  {p \in coll :
     p.userId # doc.userId \/ p.gmailMessageId # doc.gmailMessageId}
    \cup {doc}

\* processedEmail.save(): the collection afterwards
Save(coll, doc) ==
  IF ViolatesUniqueIndex(coll, doc) THEN coll ELSE coll \cup {doc}

\* t contains the text s, ignoring case ($regex: s, $options: "i" for a
\* text s without regex metacharacters)
ContainsIgnoreCase(t, s) ==
  \E i \in 1..(Len(t) + 1) :
    /\ i + Len(s) - 1 <= Len(t)
    /\ \A k \in 1..Len(s) : ToLower(t[i + k - 1]) = ToLower(s[k])

SameDay(d1, d2) == d1 \div DayMs = d2 \div DayMs

\* variant of isDuplicateExpense: the exact match is not part of the result
isDuplicateExpense_NoExact(expenseData, userId, emailData, at) ==
  \/ \E e \in Expense :
       e.userId = userId /\ e.description = emailData.messageId
  \/ \E e \in Expense :
       /\ e.userId = userId
       /\ e.amount = expenseData.amount
       /\ ContainsIgnoreCase(e.title, Substring0(expenseData.title, SimilarTitleLen))
       /\ e.date >= at - DayMs

\* isDuplicateExpense(expenseData, userId, emailData) evaluated at instant at
isDuplicateExpense(expenseData, userId, emailData, at) ==
  LET exactMatch ==
        \E e \in Expense :
          /\ e.userId = userId
          /\ e.title = expenseData.title
          /\ e.amount = expenseData.amount
          /\ SameDay(e.date, expenseData.date)
      gmailIdMatch ==
        \E e \in Expense :
          e.userId = userId /\ e.description = emailData.messageId
      similarExpense ==
        \E e \in Expense :
          /\ e.userId = userId
          /\ e.amount = expenseData.amount
          /\ ContainsIgnoreCase(e.title, Substring0(expenseData.title, SimilarTitleLen))
          /\ e.date >= at - DayMs
  IN exactMatch \/ gmailIdMatch \/ similarExpense

\* ------------------------------------------------------------------------
\* Actions
\* ------------------------------------------------------------------------
\* a run of user u completed less than importCooldown ago
CompletedRecently(u) ==
  \E q \in Requests :
    /\ req[q].pc = "done"
    /\ req[q].user = u
    /\ now - req[q].finishedAt < importCooldown

\* preventDuplicateImports for a request of user u: 429 while the entry of
\* the user is younger than importCooldown, else the entry is set and the
\* route handler starts
preventDuplicateImports(r, u) ==
  /\ req[r].pc = "idle"
  /\ \E i \in 1..Len(RequestOrder) :
       RequestOrder[i] = r /\ \A j \in 1..(i - 1) : req[RequestOrder[j]].pc # "idle"
  /\ LET userId == LockKey(u)
     IN IF /\ activeImports[userId] # Absent
           /\ now - activeImports[userId] < importCooldown
        THEN /\ req' = [req EXCEPT ![r].pc = "rejected", ![r].user = u]
             /\ UNCHANGED activeImports
        ELSE /\ activeImports' = [activeImports EXCEPT ![userId] = now]
             /\ req' = [req EXCEPT
                          ![r].pc = "locating", ![r].user = u,
                          ![r].after = {q \in Requests : req[q].pc = "done"},
                          ![r].early = CompletedRecently(u)]
  /\ UNCHANGED <<now, ProcessedEmail, Expense, call>>

\* await listExpenseEmails()
Locate(r) ==
  /\ req[r].pc = "locating"
  /\ \E failAt \in 0..(NumQueries + 1) :
       req' = [req EXCEPT
                 ![r].pc = "next",
                 ![r].messages = listExpenseEmails(Inbox(req[r].user), failAt),
                 ![r].idx = 1]
  /\ UNCHANGED <<now, activeImports, ProcessedEmail, Expense, call>>

\* The message at the head of the list after parseEmail (fetched: whether
\* the fetch succeeded) and extractExpenseData: an empty body or a thrown
\* extraction is an error, an amount that is not positive is skipped, any
\* other message goes to the duplicate judge.
Extracted(r, fetched, emailData, data) ==
  LET empty == emailData.body = <<>>
  IN req' = [req EXCEPT
               ![r].fetched = fetched,
               ![r].data = IF empty THEN NoData ELSE data,
               ![r].expenseId = NoExpense,
               ![r].status =
                 IF empty \/ data.threw THEN "error"
                 ELSE IF ~IsPositive(data.amount) THEN "skipped"
                 ELSE "",
               ![r].pc =
                 IF empty \/ data.threw \/ ~IsPositive(data.amount)
                 THEN "mark" ELSE "judge"]

\* variant of Process: a message found in the ledger is passed over
\* without being counted
Process_AlreadyNotCounted(r) ==
  LET q == req[r]
      m == q.messages[q.idx]
  IN /\ q.pc = "next"
     /\ q.idx <= Len(q.messages)
     /\ IF isEmailAlreadyProcessed(q.user, m)
        THEN req' = [req EXCEPT
                       ![r].idx = q.idx + 1,
                       ![r].log = Append(q.log,
                         [status |-> "already", fetched |-> FALSE,
                          created |-> FALSE, saved |-> ""])]
        ELSE \E ok \in BOOLEAN :
               Extracted(r, ok, parseEmail(m, ok),
                         [Extraction[m][ok] EXCEPT !.date = now])
     /\ UNCHANGED <<now, activeImports, ProcessedEmail, Expense, call>>

\* top of the loop over the messages: the ledger check, then parseEmail
\* (ok: whether the fetch succeeds) and extractExpenseData
Process(r) ==
  LET q == req[r]
      m == q.messages[q.idx]
  IN /\ q.pc = "next"
     /\ q.idx <= Len(q.messages)
     /\ IF isEmailAlreadyProcessed(q.user, m)
        THEN req' = [req EXCEPT
                       ![r].idx = q.idx + 1,
                       ![r].skipped = q.skipped + 1,
                       ![r].log = Append(q.log,
                         [status |-> "already", fetched |-> FALSE,
                          created |-> FALSE, saved |-> ""])]
        ELSE \E ok \in BOOLEAN :
               Extracted(r, ok, parseEmail(m, ok),
                         [Extraction[m][ok] EXCEPT !.date = now])
     /\ UNCHANGED <<now, activeImports, ProcessedEmail, Expense, call>>

\* await isDuplicateExpense(...)
Judge(r) ==
  LET q == req[r]
      emailData == parseEmail(q.messages[q.idx], q.fetched)
  IN /\ q.pc = "judge"
     /\ IF isDuplicateExpense(q.data, q.user, emailData, now)
        THEN req' = [req EXCEPT ![r].pc = "mark", ![r].status = "skipped"]
        ELSE req' = [req EXCEPT ![r].pc = "create"]
     /\ UNCHANGED <<now, activeImports, ProcessedEmail, Expense, call>>

\* await Expense.create(...)
Create(r) ==
  LET q == req[r]
  IN /\ q.pc = "create"
     /\ Expense' = Expense \cup
          {[id |-> <<r, q.idx>>, userId |-> q.user, title |-> q.data.title,
            amount |-> q.data.amount, date |-> q.data.date,
            description |-> q.messages[q.idx]]}
     /\ req' = [req EXCEPT ![r].pc = "mark", ![r].status = "processed",
                           ![r].expenseId = <<r, q.idx>>]
     /\ UNCHANGED <<now, activeImports, ProcessedEmail, call>>

\* variant of markEmailAsProcessed: the rejection of save() is not caught
\* inside the loop, the run ends with a 500 response
markEmailAsProcessed_Rethrows(r) ==
  LET q == req[r]
      emailData == parseEmail(q.messages[q.idx], q.fetched)
      doc == NewProcessedEmail(<<r, q.idx>>, q.user, emailData, q.expenseId,
                               q.status)
  IN /\ q.pc = "mark"
     /\ ProcessedEmail' = Save(ProcessedEmail, doc)
     /\ req' = [req EXCEPT
                  ![r].pc = IF ViolatesUniqueIndex(ProcessedEmail, doc)
                            THEN "failed" ELSE "next",
                  ![r].idx = q.idx + 1,
                  ![r].log = Append(q.log,
                    [status |-> q.status, fetched |-> q.fetched,
                     created |-> q.expenseId # NoExpense, saved |-> "ok"])]
     /\ UNCHANGED <<now, activeImports, Expense, call>>

\* await markEmailAsProcessed(userId, emailData, expenseId, status); a
\* rejected save (unique index) is caught and the loop goes on
markEmailAsProcessed(r) ==
  LET q == req[r]
      emailData == parseEmail(q.messages[q.idx], q.fetched)
      doc == NewProcessedEmail(<<r, q.idx>>, q.user, emailData, q.expenseId,
                               q.status)
      saved == IF ViolatesUniqueIndex(ProcessedEmail, doc)
               THEN "AlreadyRecorded" ELSE "ok"
  IN /\ q.pc = "mark"
     /\ ProcessedEmail' = Save(ProcessedEmail, doc)
     /\ req' = [req EXCEPT
                  ![r].pc = "next",
                  ![r].idx = q.idx + 1,
                  ![r].fetched = FALSE,
                  ![r].data = NoData,
                  ![r].status = "",
                  ![r].expenseId = NoExpense,
                  ![r].imported = q.imported + (IF q.status = "processed" THEN 1 ELSE 0),
                  ![r].skipped = q.skipped + (IF q.status = "skipped" THEN 1 ELSE 0),
                  ![r].errors = q.errors + (IF q.status = "error" THEN 1 ELSE 0),
                  ![r].log = Append(q.log,
                    [status |-> q.status, fetched |-> q.fetched,
                     created |-> q.expenseId # NoExpense, saved |-> saved])]
     /\ UNCHANGED <<now, activeImports, Expense, call>>

\* variant of Finish: a run that found no message returns early and keeps
\* the flag
Finish_KeepsFlagWhenEmpty(r) ==
  /\ req[r].pc = "next"
  /\ req[r].idx > Len(req[r].messages)
  /\ activeImports' =
       IF req[r].messages = <<>> THEN activeImports
       ELSE [activeImports EXCEPT ![LockKey(req[r].user)] = Absent]
  /\ req' = [req EXCEPT ![r].pc = "done", ![r].finishedAt = now]
  /\ UNCHANGED <<now, ProcessedEmail, Expense, call>>

\* end of the loop: the summary is returned and the active import flag of
\* the user is cleared
Finish(r) ==
  /\ req[r].pc = "next"
  /\ req[r].idx > Len(req[r].messages)
  /\ activeImports' = [activeImports EXCEPT ![LockKey(req[r].user)] = Absent]
  /\ req' = [req EXCEPT ![r].pc = "done", ![r].finishedAt = now]
  /\ UNCHANGED <<now, ProcessedEmail, Expense, call>>

\* time passes
Tick ==
  /\ now + TickMs <= MaxNow
  /\ now' = now + TickMs
  /\ UNCHANGED <<activeImports, ProcessedEmail, Expense, req, call>>

Next ==
  \/ \E r \in Requests, u \in Users : preventDuplicateImports(r, u)
  \/ \E r \in Requests : Locate(r)
  \/ \E r \in Requests : Process(r)
  \/ \E r \in Requests : Judge(r)
  \/ \E r \in Requests : Create(r)
  \/ \E r \in Requests : markEmailAsProcessed(r)
  \/ \E r \in Requests : Finish(r)
  \/ Tick

Spec == Init /\ [][Next]_vars

\* the steps of the run of request r
Run(r) ==
  \/ Locate(r) \/ Process(r) \/ Judge(r) \/ Create(r)
  \/ markEmailAsProcessed(r) \/ Finish(r)

\* every pending continuation of a started run is eventually resumed
FairSpec == Spec /\ \A r \in Requests : WF_vars(Run(r))

\* ------------------------------------------------------------------------
\* extractExpenseData called on its own
\* ------------------------------------------------------------------------
\* the plain texts b1 .. b15 the function is called on
ExtractBody(b) ==
  CASE b = "b1" -> <<"T", "o", "t", "a", "l", ":", " ", Rupee, "1", ",", "2",
                     "5", "0", ".", "5", "0", "\n">>
    [] b = "b2" -> <<"P", "a", "i", "d", " ", Rupee, "5", " ", "c", "a", "s",
                     "h">>
    [] b = "b3" -> <<Rupee, "2", "0", "0", " ", Rupee, "3", "0", "0">>
    [] b = "b4" -> <<"P", "a", "i", "d", " ", "5", "0", " ", "R", "s", " ",
                     "7", "0">>
    [] b = "b5" -> <<"P", "a", "i", "d", " ", "5", "0", " ", Rupee, "7", "0">>
    [] b = "b6" -> <<"I", "t", "e", "m", ":", " ", "a", "b", "\n">>
    [] b = "b7" -> <<"I", "t", "e", "m", ":", " ", "C", "o", "f", "f", "e",
                     "e", " ", "b", "e", "a", "n", "s", "\n", "V", "e", "n",
                     "d", "o", "r", ":", " ", "C", "a", "f", "e", "\n", "D",
                     "a", "t", "e", ":", " ", "2", "0", "2", "6", "-", "0",
                     "1", "-", "1", "2", "\n", "T", "o", "t", "a", "l", ":",
                     " ", "1", "5", "0", "\n">>
    [] b = "b8" -> <<>>
    [] b = "b9" -> <<"H", "i", "\n">>
    [] b = "b10" -> <<"T", "o", "t", "a", "l", ":", " ", "0", "\n", "C", "o",
                      "s", "t", ":", " ", "1", "2", ".", "5", "\n">>
    [] b = "b11" -> <<"T", "o", "t", "a", "l", ":", " ", "4", "0", "\n", "D",
                      "a", "t", "e", ":", " ", "s", "o", "o", "n">>
    [] b = "b12" -> <<"P", "u", "r", "c", "h", "a", "s", "e", " ", "D", "a",
                      "t", "e", ":", " ", "2", "0", "1", "9", "-", "0", "5",
                      "-", "0", "5", "\n">>
    [] b = "b13" -> <<"S", "t", "o", "r", "e", ":", " ", "C", "a", "f", "e",
                      "\n", "V", "e", "n", "d", "o", "r", ":", " ", " ",
                      "\n">>
    [] b = "b14" -> <<"S", "h", "o", "p", ":", " ", "T", "e", "a", " ", "H",
                      "o", "u", "s", "e", "\n", "M", "e", "r", "c", "h", "a",
                      "n", "t", ":", " ", "A", "c", "m", "e", "\n">>
    [] b = "b15" -> <<"V", "e", "n", "d", "o", "r", ":", " ", "T", "h", "e",
                      " ", "V", "e", "r", "y", " ", "L", "o", "n", "g", " ",
                      "N", "a", "m", "e", " ", "O", "f", " ", "A", " ", "S",
                      "h", "o", "p", " ", "T", "h", "a", "t", " ", "S", "e",
                      "l", "l", "s", " ", "T", "e", "a", " ", "A", "n", "d",
                      " ", "C", "o", "f", "f", "e", "e", " ", "B", "e", "a",
                      "n", "s", "\n">>

\* the header mappings h1 .. h5 the function is called on
ExtractHeaders(h) ==
  CASE h = "h1" -> [subject |-> <<"R", "e", "c", "e", "i", "p", "t">>,
                    from |-> <<"S", "h", "o", "p", " ", "<", "a", "@", "b",
                               ".", "c", ">">>]
    [] h = "h2" -> [subject |-> <<>>,
                    from |-> <<>>]
    [] h = "h3" -> [subject |-> <<"F", "w", "d", ":", " ">>,
                    from |-> <<"b", "o", "b", "@", "m", "a", "i", "l", ".",
                               "c", "o", "m">>]
    [] h = "h4" -> [subject |-> <<"R", "e", ":", " ", "T", "e", "a">>,
                    from |-> <<"A", "n", "n", " ", "<", "f", "i", "r", "s",
                               "t", ".", "l", "a", "s", "t", "@", "m", "a",
                               "i", "l", ".", "e", "x", "a", "m", "p", "l",
                               "e", ".", "c", "o", "m", ">">>]
    [] h = "h5" -> [subject |-> <<"T", "e", "a">>,
                    from |-> <<"T", "e", "a", "m">>]

\* extractExpenseData({body, headers}) at instant at, for every text, every
\* header mapping and every instant the clock of the model shows
ExtractTable ==
  [b \in {"b1", "b2", "b3", "b4", "b5", "b6", "b7", "b8", "b9", "b10", "b11",
          "b12", "b13", "b14", "b15"} |->
    [h \in {"h1", "h2", "h3", "h4", "h5"} |->
      [at \in {t \in 0..MaxNow : t % TickMs = 0} |->
         extractExpenseData([body    |-> ExtractBody(b),
                             headers |-> ExtractHeaders(h)], at)]]]

\* extractExpenseData({body, headers}) is called at the instant now;
\* before: the call before this one, when it had the same arguments
Extract(b, h) ==
  /\ call' = [op      |-> "extract",
              body    |-> b,
              headers |-> h,
              at      |-> now,
              out     |-> ExtractTable[b][h][now],
              before  |-> IF /\ call.op = "extract"
                             /\ call.body = b
                             /\ call.headers = h
                          THEN [called |-> TRUE, at |-> call.at,
                                out |-> call.out]
                          ELSE [called |-> FALSE]]
  /\ UNCHANGED <<now, activeImports, ProcessedEmail, Expense, req>>

ExtractNext ==
  \/ \E b \in DOMAIN ExtractTable :
       \E h \in DOMAIN ExtractTable[b] : Extract(b, h)
  \/ Tick

ExtractSpec == Init /\ [][ExtractNext]_vars

\* ------------------------------------------------------------------------
\* listExpenseEmails called on its own
\* ------------------------------------------------------------------------
\* listExpenseEmails() is called on a mailbox whose queries return results,
\* with the API call failAt rejecting
List(results, failAt) ==
  /\ call' = [op      |-> "list",
              results |-> results,
              failed  |-> Rejects(results, failAt),
              issued  |-> QueriesIssued(results, failAt),
              out     |-> listExpenseEmails(results, failAt)]
  /\ UNCHANGED <<now, activeImports, ProcessedEmail, Expense, req>>

\* calls on every mailbox whose queries return one of four lists each
ListSpec ==
  Init /\ [][\E results \in [1..NumQueries ->
                              {<<>>, <<"m1">>, <<"m2", "m1", "m2">>,
                               <<"m3", "m4">>}],
                failAt \in 0..(NumQueries + 1) : List(results, failAt)]_vars

\* ------------------------------------------------------------------------
\* parseEmail called on its own
\* ------------------------------------------------------------------------
\* a part of a message
Part(mimeType, data, parts) ==
  [mimeType |-> mimeType, data |-> data, parts |-> parts]

\* the parts the part trees are built from: text/plain with and without
\* data, text/html, and multipart parts that hold such parts
PartKinds ==
  { Part("text/plain", <<"A">>, <<>>),
    Part("text/plain", <<>>, <<>>),
    Part("text/html", <<"<", "b", ">", "H", "<", "/", "b", ">">>, <<>>),
    Part("text/html", <<"G", " ", "\n", "<", "i", ">", "g">>, <<>>),
    Part("multipart/alternative", <<>>,
         <<Part("text/html", <<"<", "b", ">", "H", "<", "/", "b", ">">>, <<>>)>>),
    Part("multipart/alternative", <<>>,
         <<Part("text/plain", <<"A">>, <<>>)>>),
    Part("multipart/alternative", <<>>,
         <<Part("text/html", <<"G", " ", "\n", "<", "i", ">", "g">>, <<>>),
           Part("text/plain", <<"A">>, <<>>)>>) }

MaxParts == 2

\* the payloads users.messages.get returns: simple emails and multipart
\* emails of up to MaxParts parts, with and without headers
Payloads ==
  { [headers |-> hs, mimeType |-> p.mimeType, data |-> p.data, parts |-> <<>>] :
      hs \in {NoHeaders, ExtractHeaders("h1")},
      p \in {k \in PartKinds : k.parts = <<>>} }
  \cup
  { [headers |-> hs, mimeType |-> "multipart/mixed", data |-> <<>>, parts |-> ps] :
      hs \in {NoHeaders, ExtractHeaders("h1")},
      ps \in UNION {[1..n -> PartKinds] : n \in 1..MaxParts} }

\* parseEmail(messageId) is called; ok: users.messages.get returns payload,
\* else it rejects
Parse(payload, ok) ==
  /\ call' = [op      |-> "parse",
              payload |-> payload,
              ok      |-> ok,
              out     |-> IF ok THEN ParsePayload(payload, "m1")
                          ELSE parseEmail("m1", FALSE)]
  /\ UNCHANGED <<now, activeImports, ProcessedEmail, Expense, req>>

ParseSpec ==
  Init /\ [][\E payload \in Payloads, ok \in BOOLEAN : Parse(payload, ok)]_vars

\* ------------------------------------------------------------------------
\* isDuplicateExpense called on its own
\* ------------------------------------------------------------------------
\* a document of the Expense collection
Doc(id, userId, title, amount, date, description) ==
  [id |-> id, userId |-> userId, title |-> title, amount |-> amount,
   date |-> date, description |-> description]

\* the expenses that may be in the collection when the judge is called:
\* entered by hand today and three days ago, imported from message m1,
\* one whose title holds the candidate's title after another word, and
\* one dated three days from today
StoredExpenses ==
  { Doc("e1", "u1", <<"C", "o", "f", "f", "e", "e", " ", "S", "h", "o", "p">>,
        Num(150, 0), 0, "manual"),
    Doc("e2", "u1", <<"C", "o", "f", "f", "e", "e", " ", "S", "h", "o", "p">>,
        Num(150, 0), -3 * DayMs, "manual"),
    Doc("e3", "u1", <<"C", "O", "F", "F", "E", "E", " ", "S", "H", "O", "P", " ", "d", "o", "w", "n", "t", "o", "w", "n">>,
        Num(150, 0), 0, "manual"),
    Doc("e4", "u1", <<"T", "e", "a">>, Num(20, 0), 0, "m1"),
    Doc("e5", "u2", <<"C", "o", "f", "f", "e", "e", " ", "S", "h", "o", "p">>,
        Num(150, 0), 0, "m1"),
    Doc("e6", "u1", <<"M", "y", " ", "C", "o", "f", "f", "e", "e", " ", "S", "h", "o", "p">>,
        Num(150, 0), 0, "manual"),
    Doc("e7", "u1", <<"C", "o", "f", "f", "e", "e", " ", "S", "h", "o", "p">>,
        Num(150, 0), 3 * DayMs, "manual") }

\* the expense e is created (Expense.create); the result of a call is
\* observed before the collections change again
Insert(e) ==
  /\ e \notin Expense
  /\ Expense' = Expense \cup {e}
  /\ UNCHANGED <<now, activeImports, ProcessedEmail, req>>
  /\ call' = [op |-> "none"]

\* the owner of the expense e deletes it
Remove(e) ==
  /\ e \in Expense
  /\ Expense' = Expense \ {e}
  /\ UNCHANGED <<now, activeImports, ProcessedEmail, req>>
  /\ call' = [op |-> "none"]

\* the ledger document that may exist when the judge is called: message m1
\* of user u1 was imported as expense e4
StoredRecords ==
  { NewProcessedEmail("p1", "u1", [messageId |-> "m1", headers |-> NoHeaders],
                      "e4", "processed") }

\* markEmailAsProcessed has saved the document p
Record(p) ==
  /\ p \notin ProcessedEmail
  /\ ProcessedEmail' = Save(ProcessedEmail, p)
  /\ UNCHANGED <<now, activeImports, Expense, req>>
  /\ call' = [op |-> "none"]

\* isDuplicateExpense(expenseData, userId, emailData) is called at the
\* instant now for a candidate "Coffee Shop" of amount 150 dated date
JudgeCall(date, userId, messageId) ==
  /\ call' = [op        |-> "judge",
              title     |-> <<"C", "o", "f", "f", "e", "e", " ", "S", "h", "o", "p">>,
              amount    |-> Num(150, 0),
              date      |-> date,
              userId    |-> userId,
              messageId |-> messageId,
              at        |-> now,
              store     |-> Expense,
              ledger    |-> ProcessedEmail,
              out       |-> isDuplicateExpense(
                              [title  |-> <<"C", "o", "f", "f", "e", "e", " ", "S", "h", "o", "p">>,
                               amount |-> Num(150, 0),
                               date   |-> date],
                              userId, [messageId |-> messageId], now)]
  /\ UNCHANGED <<now, activeImports, ProcessedEmail, Expense, req>>

JudgeNext ==
  \/ \E e \in StoredExpenses : Insert(e)
  \/ \E e \in StoredExpenses : Remove(e)
  \/ \E p \in StoredRecords : Record(p)
  \/ \E date \in {0, -3 * DayMs}, userId \in Users, messageId \in {"m1", "m2"} :
       JudgeCall(date, userId, messageId)
  \/ Tick

JudgeSpec == Init /\ [][JudgeNext]_vars

\* ------------------------------------------------------------------------
\* protect called on its own
\* ------------------------------------------------------------------------
\* the status of the response of protect
Unauthorized == 401

\* the payload of a token and whether jwt.verify accepts its signature:
\* tokens of the users u1 and u2, a token of a user whose record was
\* deleted after the token was issued, a token that expires at the first
\* tick, and a token signed with another secret
Token(t) ==
  IF t = "t1" THEN [id |-> "u1", signed |-> TRUE, exp |-> MaxNow + TickMs]
  ELSE IF t = "t2" THEN [id |-> "u2", signed |-> TRUE, exp |-> MaxNow + TickMs]
  ELSE IF t = "gone" THEN [id |-> "u3", signed |-> TRUE, exp |-> MaxNow + TickMs]
  ELSE IF t = "short" THEN [id |-> "u1", signed |-> TRUE, exp |-> TickMs]
  ELSE [id |-> "u1", signed |-> FALSE, exp |-> MaxNow + TickMs]

\* jwt.verify(token, config.JWT_SECRET) at the instant at returns the
\* payload (it throws for a wrong signature and for an expired token)
Verifies(t, at) == Token(t).signed /\ at < Token(t).exp

\* User.findById(id).select("-password"): the record of the user, null
\* when no user has the id
findById(id) == IF id \in Users THEN id ELSE "null"

\* protect(req, res, next) at the instant at for a request whose
\* Authorization header, split at " ", is authorization (no header: <<>>),
\* db telling whether the query of the database is answered
protect(authorization, db, at) ==
  IF Len(authorization) < 2 \/ authorization[2] = ""
  THEN [status |-> Unauthorized, next |-> 0, user |-> ""]
  ELSE IF ~Verifies(authorization[2], at) \/ ~db
       THEN [status |-> Unauthorized, next |-> 0, user |-> ""]
       ELSE [status |-> 0, next |-> 1,
             user |-> findById(Token(authorization[2]).id)]

\* a request with the given header passes through protect at the instant
\* now; key is the lock key preventDuplicateImports derives from req.user
Authenticate(authorization, db) ==
  /\ call' = [op |-> "auth", authorization |-> authorization, db |-> db,
              at |-> now,
              out |-> protect(authorization, db, now),
              key |-> LockKey(protect(authorization, db, now).user)]
  /\ UNCHANGED <<now, activeImports, ProcessedEmail, Expense, req>>

AuthSpec ==
  Init /\ [][ \/ \E t \in {"", "t1", "t2", "gone", "short", "forged"} :
                   \E authorization \in {<<>>, <<"Bearer">>, <<"Bearer", t>>,
                                         <<"Token", t>>, <<t>>} :
                     \E db \in BOOLEAN : Authenticate(authorization, db)
              \/ Tick ]_vars

\* ------------------------------------------------------------------------
\* The runs together with the clearing of the ledger
\* ------------------------------------------------------------------------
\* DELETE /api/gmail/clear-processed-emails of user u: the documents of
\* the user are removed from the ledger
clearProcessedEmails(u) ==
  /\ \E p \in ProcessedEmail : p.userId = u
  /\ ProcessedEmail' = {p \in ProcessedEmail : p.userId # u}
  /\ UNCHANGED <<now, activeImports, Expense, req, call>>

LedgerSpec ==
  Init /\ [][Next \/ \E u \in Users : clearProcessedEmails(u)]_vars

\* ------------------------------------------------------------------------
\* Properties
\* ------------------------------------------------------------------------
\* an import run of request r is active
Active(r) == req[r].pc \in {"locating", "next", "judge", "create", "mark"}

\* the request was accepted and its message list is known
Located(r) == req[r].pc \in {"next", "judge", "create", "mark", "done"}

\* the documents of the ledger for a user and a message
Records(userId, m) ==
  {p \in ProcessedEmail : p.userId = userId /\ p.gmailMessageId = m}

\* request r2 was accepted after the run of r1 of the same user had
\* completed, and found the same message list
Rerun(r1, r2) ==
  /\ r1 \in req[r2].after
  /\ req[r1].user = req[r2].user
  /\ Located(r2)
  /\ req[r2].messages = req[r1].messages

\* C1: a run that starts after a completed run of the same account and
\* finds the same message list creates no expense: it takes every message
\* for already processed, and once it has ended the ledger holds exactly
\* one document for every message of the list.
C1_Idempotent ==
  \A r1, r2 \in Requests :
    Rerun(r1, r2) =>
      /\ req[r2].pc \in {"next", "done"}
      /\ req[r2].imported = 0
      /\ \A k \in 1..Len(req[r2].log) : req[r2].log[k].status = "already"
      /\ req[r2].pc = "done" =>
           \A k \in 1..Len(req[r2].messages) :
             Cardinality(Records(req[r2].user, req[r2].messages[k])) = 1

\* a rerun over a non-empty list has ended, the first run having created
\* an expense
C1_Witness ==
  \E r1, r2 \in Requests :
    /\ Rerun(r1, r2)
    /\ req[r2].pc = "done"
    /\ Len(req[r2].messages) > 1
    /\ req[r1].imported > 0

\* C2: at most one import run is active per account, whatever the
\* interleaving of the requests and however long a run has been running.
C2_SingleFlight ==
  \A r1, r2 \in Requests :
    (r1 # r2 /\ Active(r1) /\ Active(r2)) => req[r1].user # req[r2].user

\* C3: a start is rejected only when a run of the same account is active,
\* and a step of a request leaves the activeImports entries of all other
\* accounts as they are.
C3_Independent ==
  [][ \A r \in Requests :
        /\ (req[r].pc = "idle" /\ req'[r].pc = "rejected") =>
             \E q \in Requests : Active(q) /\ req[q].user = req'[r].user
        /\ req'[r] # req[r] =>
             \A k \in LockKeys \ {req'[r].user} :
               activeImports'[k] = activeImports[k] ]_vars

\* runs of two different accounts are active at once
C3_Witness ==
  \E r1, r2 \in Requests :
    Active(r1) /\ Active(r2) /\ req[r1].user # req[r2].user

\* C4: a start less than importCooldown after the completion of a run of
\* the same account is rejected.
C4_CooldownAfterCompletion ==
  \A r \in Requests : req[r].early => req[r].pc = "rejected"

\* no run of user u is active
Idle(u) == \A r \in Requests : Active(r) => req[r].user # u

C6_LedgerCoverage ==
  \A r \in Requests :
    req[r].pc = "done" =>
      \A k \in 1..Len(req[r].messages) :
        Cardinality(Records(req[r].user, req[r].messages[k])) = 1

\* a run has ended whose messages had all three outcomes
C6_Witness ==
  \E r \in Requests :
    /\ req[r].pc = "done"
    /\ \A st \in {"processed", "skipped", "error"} :
         \E k \in 1..Len(req[r].log) :
           req[r].log[k].status = st /\ req[r].log[k].saved = "ok"

\* C7: the ledger never holds two documents for one user and message; a
\* document once saved is never changed or removed, and a save that finds
\* a document for the pair is rejected and leaves the ledger as it is.
C7_LedgerUnique ==
  /\ [](\A p1, p2 \in ProcessedEmail :
          (p1.userId = p2.userId /\ p1.gmailMessageId = p2.gmailMessageId)
            => p1 = p2)
  /\ [][ /\ ProcessedEmail \subseteq ProcessedEmail'
         /\ \A r \in Requests :
              (req[r].pc = "mark" /\ req'[r].pc # "mark") =>
                LET m == req[r].messages[req[r].idx]
                    last == req'[r].log[Len(req'[r].log)]
                IN IF Records(req[r].user, m) # {}
                   THEN /\ last.saved = "AlreadyRecorded"
                        /\ ProcessedEmail' = ProcessedEmail
                   ELSE /\ last.saved = "ok"
                        /\ Cardinality(ProcessedEmail') =
                             Cardinality(ProcessedEmail) + 1 ]_vars

\* two runs of one user have both tried to save a document for the same
\* message, and the second was rejected
C7_Witness ==
  \E r1, r2 \in Requests : \E k1 \in 1..Len(req[r1].log) :
    \E k2 \in 1..Len(req[r2].log) :
      /\ r1 # r2
      /\ req[r1].user = req[r2].user
      /\ req[r1].messages[k1] = req[r2].messages[k2]
      /\ req[r1].log[k1].saved = "ok"
      /\ req[r2].log[k2].saved = "AlreadyRecorded"

C9_ZeroAmountNotRecorded ==
  /\ \A e \in Expense : ~e.amount.nan /\ e.amount.m > 0
  /\ \A r \in Requests :
       (req[r].pc \in {"judge", "create", "mark"} /\ req[r].data.amount = Zero)
         => /\ req[r].pc = "mark"
            /\ req[r].status \in {"skipped", "error"}
            /\ req[r].expenseId = NoExpense
  /\ \A p \in ProcessedEmail :
       p.status = "processed" =>
         Extraction[p.gmailMessageId][TRUE].amount.m > 0

\* a fetched message without an amount is about to be marked "skipped"
C9_Witness ==
  \E r \in Requests :
    /\ req[r].pc = "mark"
    /\ req[r].fetched
    /\ ~req[r].data.threw
    /\ req[r].data.amount = Zero
    /\ req[r].status = "skipped"

\* C10: a run that has ended has handled every message of its list, also
\* those after a message whose fetch or extraction failed; every handled
\* message that was not already in the ledger has a document there; the
\* counters add up to the length of the list, and imported counts exactly
\* the messages for which an expense was created, which were all fetched
\* and had a positive amount.
C10_FailureIsolated ==
  \A r \in Requests :
    LET q == req[r]
    IN /\ q.pc = "done" =>
            /\ Len(q.log) = Len(q.messages)
            /\ q.imported + q.skipped + q.errors = Len(q.messages)
            /\ q.imported =
                 Cardinality({k \in 1..Len(q.log) : q.log[k].created})
       /\ \A k \in 1..Len(q.log) :
            /\ q.log[k].status # "already" => Records(q.user, q.messages[k]) # {}
            /\ q.log[k].created <=> q.log[k].status = "processed"
            /\ q.log[k].created =>
                 /\ q.log[k].fetched
                 /\ ~Extraction[q.messages[k]][TRUE].threw
                 /\ Extraction[q.messages[k]][TRUE].amount.m > 0
            /\ (q.log[k].status # "already" /\ ~q.log[k].fetched) =>
                 q.log[k].status = "error"

\* a run has ended in which a fetch failed and a later message of the list
\* became an expense
C10_Witness ==
  \E r \in Requests : \E k, j \in 1..Len(req[r].log) :
    /\ req[r].pc = "done"
    /\ k < j
    /\ req[r].log[k].status = "error"
    /\ ~req[r].log[k].fetched
    /\ req[r].log[j].created

\* ------------------------------------------------------------------------
\* Properties of extractExpenseData
\* ------------------------------------------------------------------------
\* some date pattern of the table matches a text that is a date after 2020
HasPurchaseDate(body) ==
  \E i \in 1..Len(datePatterns) :
    \E match \in {DateMatch(body, datePatterns[i])} :
      /\ match.found
      /\ \E tempDate \in {NewDate(Trim(match.m1))} :
           tempDate.valid /\ tempDate.year > MinYear

C13_NeverRaises == call.op = "extract" => ~call.out.threw

\* the number pattern i of the amount table captures in the text: the parsed
\* group of its match, no number when it does not match
Captured(body, i) ==
  LET match == AmountMatch(body, [amountPatterns[i] EXCEPT !.global = FALSE])
  IN  IF match.found THEN ParseFloat(RemoveCommas(match.m1)) ELSE NaN

\* the patterns of the amount table with a label (Amount, Total, Price,
\* Cost, paid, charged, bill); the others have a currency symbol only
Labeled == {i \in 1..Len(amountPatterns) :
              amountPatterns[i] = LabelPat(amountPatterns[i].lit)}

\* the positive amounts the patterns of the set S capture in the text
PositiveAmounts(body, S) ==
  {Captured(body, i) : i \in {j \in S : IsPositive(Captured(body, j))}}

\* C18: for a text with a positive labeled amount and a different positive
\* amount after a bare currency symbol, the extracted amount is a labeled
\* one.
C18_LabeledBeforeBare ==
  ( /\ call.op = "extract"
    /\ PositiveAmounts(ExtractBody(call.body), Labeled) # {}
    /\ PositiveAmounts(ExtractBody(call.body), (1..Len(amountPatterns)) \ Labeled)
         \ PositiveAmounts(ExtractBody(call.body), Labeled) # {} )
  => /\ ~call.out.threw
     /\ call.out.amount \in PositiveAmounts(ExtractBody(call.body), Labeled)

\* the amount of the first pattern in table order whose captured number is
\* positive, 0 when there is none
FirstPositive(body) ==
  LET S == {i \in 1..Len(amountPatterns) : IsPositive(Captured(body, i))}
  IN  IF S = {} THEN Zero ELSE Captured(body, Min(S))

\* C19: the extracted amount is the captured number of the first pattern of
\* the table, the bare rupee and dollar patterns included, whose capture is
\* positive, and 0 when there is none; it is a number and not negative.
C19_FirstPositiveCapture ==
  (call.op = "extract" /\ ~call.out.threw) =>
    /\ ~call.out.amount.nan
    /\ call.out.amount.m >= 0
    /\ call.out.amount = FirstPositive(ExtractBody(call.body))

\* the trimmed captures, cut to TitleMaxLen, of the title patterns that
\* match, by pattern
TitleCaptures(body) ==
  [i \in 1..Len(titlePatterns) |->
     LET match == LineMatch(body, titlePatterns[i])
     IN  IF match.found THEN Substring0(Trim(match.m1), TitleMaxLen) ELSE <<>>]

\* the title of the first pattern whose capture is longer than TitleMinLen,
\* else the subject without its prefix, else the placeholder
FirstLongTitle(captures, subject) ==
  LET S == {i \in DOMAIN captures : Len(captures[i]) > TitleMinLen}
  IN  IF S # {} THEN captures[Min(S)]
      ELSE IF StripReplyPrefix(Trim(subject)) # <<>>
           THEN StripReplyPrefix(Trim(subject))
           ELSE GmailExpense

\* C20: the title is the capture of the first title pattern whose trimmed
\* capture is longer than 3 characters; when there is none, also when a
\* pattern matched a shorter capture, it is the subject without its reply
\* prefix, and "Gmail Expense" when that is empty; it is never empty.
C20_TitleSelection ==
  (call.op = "extract" /\ ~call.out.threw) =>
    /\ call.out.title # <<>>
    /\ call.out.title = FirstLongTitle(TitleCaptures(ExtractBody(call.body)), ExtractHeaders(call.headers).subject)

\* ------------------------------------------------------------------------
\* Properties of listExpenseEmails
\* ------------------------------------------------------------------------
\* the queries of a mailbox that return some message
NonEmpty(results) == {k \in 1..NumQueries : results[k] # <<>>}

\* C14: the queries are tried in their fixed order; the result holds the
\* messages of the first query that returns some, and of no other query; no
\* query after that one is issued; no message id occurs twice; and a call
\* in which no API call rejects returns the empty list exactly when every
\* query returns nothing.
C14_FirstMatchWins ==
  call.op = "list" =>
    /\ \A i, j \in 1..Len(call.out) : call.out[i] = call.out[j] => i = j
    /\ NonEmpty(call.results) # {} => call.issued <= Min(NonEmpty(call.results))
    /\ call.out # <<>> =>
         /\ call.issued = Min(NonEmpty(call.results))
         /\ {call.out[i] : i \in 1..Len(call.out)} =
              {call.results[call.issued][i] :
                 i \in 1..Len(call.results[call.issued])}
         /\ \A i, j \in 1..Len(call.out) :
              i < j =>
                \E a, b \in 1..Len(call.results[call.issued]) :
                  /\ a < b
                  /\ call.results[call.issued][a] = call.out[i]
                  /\ call.results[call.issued][b] = call.out[j]
    /\ ~call.failed => (call.out = <<>> <=> NonEmpty(call.results) = {})

\* a call without a rejected API call whose first query returns nothing,
\* whose second query returns a message twice and whose third query returns
\* other messages
C14_Witness ==
  /\ call.op = "list"
  /\ ~call.failed
  /\ call.results[1] = <<>>
  /\ call.results[2] = <<"m2", "m1", "m2">>
  /\ call.results[3] = <<"m3", "m4">>
  /\ call.out = <<"m2", "m1">>
  /\ call.issued = 2

\* C15: a call of listExpenseEmails in which an API call rejects ends as a
\* failure, which the caller can tell from a call that found no message.
C15_FailureIsNotEmptyList ==
  (call.op = "list" /\ call.failed) =>
    call.out # listExpenseEmails([k \in 1..NumQueries |-> <<>>], 0)

\* ------------------------------------------------------------------------
\* Properties of parseEmail
\* ------------------------------------------------------------------------
\* the texts of the text/plain parts with data of a part tree, in tree
\* order, from part i on
RECURSIVE PlainText(_, _)
PlainText(parts, i) ==
  IF i > Len(parts) THEN <<>>
  ELSE (IF parts[i].mimeType = "text/plain" THEN parts[i].data
        ELSE PlainText(parts[i].parts, 1))
       \o PlainText(parts, i + 1)

\* the text/html parts with data of a part tree, in tree order, from part i
\* on
RECURSIVE HtmlParts(_, _)
HtmlParts(parts, i) ==
  IF i > Len(parts) THEN <<>>
  ELSE (IF parts[i].mimeType = "text/html" /\ parts[i].data # <<>>
        THEN <<parts[i].data>>
        ELSE HtmlParts(parts[i].parts, 1))
       \o HtmlParts(parts, i + 1)

\* the tree has a text/plain part, with or without data
RECURSIVE HasPlainPart(_)
HasPlainPart(parts) ==
  \E i \in 1..Len(parts) :
    parts[i].mimeType = "text/plain" \/ HasPlainPart(parts[i].parts)

\* C16: when the part tree of a fetched message has a text/plain part with
\* data, the body is the text of its text/plain parts in tree order and
\* nothing else; when it has no text/plain part, the body is the converted
\* text of its first text/html part, and empty when it has none.
C16_PlainPreferred ==
  (call.op = "parse" /\ call.ok /\ call.payload.parts # <<>>) =>
    /\ PlainText(call.payload.parts, 1) # <<>> =>
         call.out.body = PlainText(call.payload.parts, 1)
    /\ ~HasPlainPart(call.payload.parts) =>
         call.out.body =
           (IF HtmlParts(call.payload.parts, 1) = <<>> THEN <<>>
            ELSE HtmlToText(HtmlParts(call.payload.parts, 1)[1]))

\* C17: what parseEmail returns when the fetch rejects differs from what it
\* returns for every message that was fetched, so that the caller can tell
\* a failed fetch from a fetched message with an empty text.
C17_FailureIsNotEmptyText ==
  (call.op = "parse" /\ ~call.ok) =>
    \A payload \in Payloads : ParsePayload(payload, "m1") # call.out

\* ------------------------------------------------------------------------
\* Properties of isDuplicateExpense
\* ------------------------------------------------------------------------
\* check 1: an expense of the account of the last call, in the collection
\* when the call was made, with the title and the amount of the candidate
\* and a date on the same calendar day
ExactHits ==
  {e \in call.store :
     /\ e.userId = call.userId
     /\ e.title = call.title
     /\ e.amount = call.amount
     /\ e.date \div DayMs = call.date \div DayMs}

\* check 2: an expense linked to the message
LinkedHits ==
  {e \in call.store :
     e.userId = call.userId /\ e.description = call.messageId}

\* check 3: an expense of the last 24 hours with the amount of the candidate
\* and a title that holds the first 20 characters of the candidate's title,
\* ignoring case
FuzzyHits ==
  {e \in call.store :
     /\ e.userId = call.userId
     /\ e.amount = call.amount
     /\ e.date >= call.at - DayMs
     /\ \E i \in 1..Len(e.title) :
          \A k \in 1..Min({Len(call.title), SimilarTitleLen}) :
            /\ i + k - 1 <= Len(e.title)
            /\ ToLower(e.title[i + k - 1]) = ToLower(call.title[k])}

VendorAsStated(body, from) ==
  LET hits    == {i \in 1..Len(vendorPatterns) :
                    LineMatch(body, vendorPatterns[i]).found}
      capture == Trim(LineMatch(body, vendorPatterns[Min(hits)]).m1)
      open    == {i \in 1..Len(from) :
                    from[i] = "<" /\ \E j \in (i + 2)..Len(from) : from[j] = ">"}
      address == IF open = {} THEN from
                 ELSE SubSeq(from, Min(open) + 1,
                             Max({j \in 1..Len(from) : from[j] = ">"}) - 1)
      at      == {i \in 1..Len(address) : address[i] = "@"}
      dots    == {i \in 1..Len(address) : i > Min(at) /\ address[i] = "."}
  IN  IF hits # {} /\ capture # <<>>
      THEN SubSeq(capture, 1, Min({Len(capture), VendorMaxLen}))
      ELSE IF at = {} THEN address
           ELSE SubSeq(address, Min(at) + 1,
                       IF dots = {} THEN Len(address) ELSE Min(dots) - 1)

C22_LedgerCheckFirst ==
  [][ \A r \in Requests :
        ( /\ req[r].pc = "next"
          /\ req[r].idx <= Len(req[r].messages)
          /\ Records(req[r].user, req[r].messages[req[r].idx]) # {}
          /\ req'[r] # req[r] )
        => /\ req'[r].pc = "next"
           /\ req'[r].idx = req[r].idx + 1
           /\ ~req'[r].fetched
           /\ req'[r].data = req[r].data
           /\ req'[r].expenseId = req[r].expenseId
           /\ Expense' = Expense
           /\ ProcessedEmail' = ProcessedEmail
           /\ LET last == req'[r].log[Len(req'[r].log)]
              IN ~last.fetched /\ ~last.created /\ last.saved = "" ]_vars

\* a run has passed over a message that had a document in the ledger with
\* a status other than "processed"
C22_Witness ==
  \E r \in Requests : \E k \in 1..Len(req[r].log) :
    /\ req[r].log[k].status = "already"
    /\ \E p \in Records(req[r].user, req[r].messages[k]) :
         p.status # "processed"

\* C23: a save that the unique index rejects does not end the run and is
\* not counted as an error: the step that gets the rejection goes on to
\* the next message with the counters moved by the outcome of the message
\* alone, and a run that has ended after such a rejection has handled
\* every message of its list.
C23_AlreadyRecordedBenign ==
  /\ [][ \A r \in Requests :
           ( /\ req[r].pc = "mark"
             /\ Records(req[r].user, req[r].messages[req[r].idx]) # {}
             /\ req'[r] # req[r] )
           => /\ req'[r].pc = "next"
              /\ req'[r].idx = req[r].idx + 1
              /\ req'[r].errors =
                   req[r].errors + (IF req[r].status = "error" THEN 1 ELSE 0)
              /\ req'[r].imported + req'[r].skipped + req'[r].errors =
                   req[r].imported + req[r].skipped + req[r].errors + 1 ]_vars
  /\ [](\A r \in Requests :
          /\ req[r].pc \in {"idle", "rejected", "locating", "next", "judge",
                            "create", "mark", "done"}
          /\ req[r].pc = "done" => Len(req[r].log) = Len(req[r].messages))

\* a run has ended that got a rejected save for a message that was not the
\* last of its list and was not an error
C23_Witness ==
  \E r \in Requests : \E k \in 1..Len(req[r].log) :
    /\ req[r].pc = "done"
    /\ k < Len(req[r].messages)
    /\ req[r].log[k].saved = "AlreadyRecorded"
    /\ req[r].log[k].status # "error"
    /\ req[r].errors = 0

\* ------------------------------------------------------------------------
\* Properties of isDuplicateExpense over the ledger
\* ------------------------------------------------------------------------
\* C24: whenever the ledger holds a document with status "processed" for
\* the user and the message of the call, the judge answers duplicate,
\* whatever the candidate and whatever the Expense collection holds.
C24_LinkedByLedger ==
  ( /\ call.op = "judge"
    /\ \E p \in call.ledger :
         /\ p.userId = call.userId
         /\ p.gmailMessageId = call.messageId
         /\ p.status = "processed" )
  => call.out

\* C25: with the exact and the message-linked match negative, the judge
\* answers duplicate exactly when the collection holds an expense of the
\* user with the amount of the candidate, a title that begins with the
\* first 20 characters of the candidate's title, ignoring case, and a
\* date in the 24 hours before the call; a title that holds those
\* characters further on, or a date after the call, does not count.
C25_FuzzyLeadingRecent ==
  (call.op = "judge" /\ ExactHits = {} /\ LinkedHits = {}) =>
    ( call.out <=>
        \E e \in call.store :
          /\ e.userId = call.userId
          /\ e.amount = call.amount
          /\ Len(e.title) >= Min({Len(call.title), SimilarTitleLen})
          /\ \A k \in 1..Min({Len(call.title), SimilarTitleLen}) :
               ToLower(e.title[k]) = ToLower(call.title[k])
          /\ e.date >= call.at - DayMs
          /\ e.date <= call.at )

\* ------------------------------------------------------------------------
\* Properties of the import status
\* ------------------------------------------------------------------------
\* calculateRemainingTime(userId): the seconds until the entry of the user
\* is importCooldown old, rounded up, and 0 from then on
calculateRemainingTime(userId) ==
  Max({0, (importCooldown - (now - activeImports[userId]) + 999) \div 1000})

\* GET /api/gmail/import-status for the user: the response
importStatus(user) ==
  IF activeImports[LockKey(user)] # Absent
  THEN [isImporting |-> TRUE,
        cooldownRemaining |-> calculateRemainingTime(LockKey(user))]
  ELSE [isImporting |-> FALSE, cooldownRemaining |-> 0]

\* C26: at every instant the status of a user reports isImporting exactly
\* when a run of the user is active; cooldownRemaining is a number of
\* seconds from 0 to the cooldown, and it is 0 whenever a start of the user
\* would be accepted.
C26_StatusConsistent ==
  \A u \in Users :
    /\ importStatus(u).isImporting <=>
         \E r \in Requests : Active(r) /\ req[r].user = u
    /\ importStatus(u).cooldownRemaining \in 0..(importCooldown \div 1000)
    /\ ( \/ activeImports[LockKey(u)] = Absent
         \/ now - activeImports[LockKey(u)] >= importCooldown )
       => importStatus(u).cooldownRemaining = 0

C28_SummaryAccounting ==
  \A r \in Requests :
    req[r].pc = "done" =>
      /\ req[r].imported + req[r].skipped + req[r].errors =
           Len(req[r].messages)
      /\ req[r].imported = Cardinality({e \in Expense : e.id[1] = r})
      /\ req[r].skipped =
           Cardinality({k \in 1..Len(req[r].log) :
                          req[r].log[k].status \in {"already", "skipped"}})
      /\ req[r].errors =
           Cardinality({k \in 1..Len(req[r].log) :
                          req[r].log[k].status = "error"})

\* a run has ended that passed over a message held by the ledger, created
\* an expense for another and failed on a third
C28_Witness ==
  \E r \in Requests :
    /\ req[r].pc = "done"
    /\ \E k \in 1..Len(req[r].log) : req[r].log[k].status = "already"
    /\ req[r].imported > 0
    /\ req[r].errors > 0

\* ------------------------------------------------------------------------
\* Properties of protect
\* ------------------------------------------------------------------------
\* C29: protect either answers 401 without calling next, which it does
\* when the request carries no token or the token does not verify, or it
\* calls next once without answering; whenever it calls next, req.user is
\* the record of an existing user, and the lock key of the request is the
\* id of that user, never "anonymous".
C29_AuthGate ==
  call.op = "auth" =>
    /\ \/ call.out.status = Unauthorized /\ call.out.next = 0
       \/ call.out.status = 0 /\ call.out.next = 1
    /\ ( \/ Len(call.authorization) < 2
         \/ call.authorization[2] = ""
         \/ ~Verifies(call.authorization[2], call.at) )
       => call.out.status = Unauthorized
    /\ call.out.next = 1 =>
         /\ call.out.user \in Users
         /\ call.key = call.out.user
         /\ call.key # "anonymous"

====
